---- MODULE Spec2Model ----
(***************************************************************************)
(* A model of the Landlord cache simulator: the replacement engine          *)
(* (src/src/main.rs), the request loop Landlord::run that drives a full     *)
(* and a suffix engine, and the Tracker ledger (src/src/logger.rs).         *)
(*                                                                         *)
(* Credits and pressures are f32 in the source.  They are modelled as      *)
(* exact rationals <<numerator, denominator>> in lowest terms.  With the   *)
(* item table below (sizes 1 and 2, small costs) every credit is a dyadic  *)
(* rational of small magnitude, on which f32 arithmetic is exact.          *)
(*                                                                         *)
(* u32 counters are kept modulo 2^32 in two's complement form: a value     *)
(* v >= 2^31 is held as v - 2^32, so that sums and differences of small    *)
(* magnitudes are the wrapped results and comparisons go through ULt.      *)
(***************************************************************************)
EXTENDS Integers, Sequences, FiniteSets

\* Longest request trace Landlord::run is driven over.
MaxTrace == 4
\* Largest cache capacity passed to Landlord::new.
MaxCap == 2
\* Largest suffix_start passed to Landlord::run.
MaxStart == 2
\* The capacity of the runs of SpecWide, where a fault can evict one item and
\* leave another one cached with a decayed credit.
WideCap == 3
\* The suffix_start of the runs of SpecWide.
WideStart == 1

VARIABLES
    cap,            \* Cache.size = Tiebreaker.size of both engines
    hit_policy,     \* Cache.policy
    tie_policy,     \* Tiebreaker.policy
    suffix_start,   \* argument of Landlord::run
    f,              \* the full engine
    s,              \* the suffix engine
    tracker,        \* the Tracker
    trace,          \* the requests the loop of run has taken so far
    pc,             \* where run is: "full", "fevict", "suff", "sevict", "panic"
    ev,             \* the fault in progress: needed size and pressure so far
    abort,          \* the panic message once pc = "panic"
    full_res,       \* history: result of the full engine at each position
    suff_res,       \* history: what the suffix channel did at each position
    s_seen,         \* history: the items passed to s.request, in order
    cascade,        \* history: the evict steps of the latest request
    res             \* history: the latest RequestResult and who returned it

vars == <<cap, hit_policy, tie_policy, suffix_start, f, s, tracker, trace, pc,
          ev, abort, full_res, suff_res, s_seen, cascade, res>>

-----------------------------------------------------------------------------
\* Exact rationals.

RECURSIVE Gcd(_, _)
Gcd(a, b) == IF b = 0 THEN a ELSE Gcd(b, a % b)

Abs(n) == IF n < 0 THEN -n ELSE n

Rat(n, d) == LET g == Gcd(Abs(n), d) IN <<n \div g, d \div g>>

Zero == <<0, 1>>

RAdd(p, q) == Rat(p[1] * q[2] + q[1] * p[2], p[2] * q[2])

RSub(p, q) == Rat(p[1] * q[2] - q[1] * p[2], p[2] * q[2])

RMul(p, q) == Rat(p[1] * q[1], p[2] * q[2])

\* q is positive wherever the engine divides (a size, or 2).
RDiv(p, q) == Rat(p[1] * q[2], p[2] * q[1])

RLt(p, q) == p[1] * q[2] < q[1] * p[2]

RLe(p, q) == p[1] * q[2] <= q[1] * p[2]

-----------------------------------------------------------------------------
\* u32 and f32 conversions.

\* Unsigned a < b on the two's complement form.
ULt(a, b) == IF (a >= 0) = (b >= 0) THEN a < b ELSE a >= 0

RECURSIVE BitLen(_)
BitLen(n) == IF n = 0 THEN 0 ELSE 1 + BitLen(n \div 2)

RECURSIVE Pow2(_)
Pow2(k) == IF k = 0 THEN 1 ELSE 2 * Pow2(k - 1)

\* `n as f32`: round to nearest, ties to even, on a 24-bit significand.
F32OfU32(n) ==
    IF BitLen(n) <= 24 THEN n
    ELSE LET q == Pow2(BitLen(n) - 24)
             lo == (n \div q) * q
             r == n - lo
         IN  IF 2 * r < q THEN lo
             ELSE IF 2 * r > q THEN lo + q
             ELSE IF (lo \div q) % 2 = 0 THEN lo ELSE lo + q

-----------------------------------------------------------------------------
\* Items.

\* The item table of the run: label, cost, size.
Items ==
    { [label |-> "a", cost |-> 4, size |-> 1],
      [label |-> "b", cost |-> 2, size |-> 1],
      [label |-> "x", cost |-> 4, size |-> 2],
      [label |-> "z", cost |-> 0, size |-> 2] }

Labels == { it.label : it \in Items }

get_cost(item) == Rat(F32OfU32(item.cost), 1)

get_size(item) == item.size

HitPolicies == {"Lru", "Fifo", "Rand", "Half"}

TiebreakingPolicies == {"Lru", "Fifo", "Rand"}

-----------------------------------------------------------------------------
\* Sequence helpers (VecDeque operations).

RemoveAt(q, i) == SubSeq(q, 1, i - 1) \o SubSeq(q, i + 1, Len(q))

\* VecDeque::insert at 0-based index k, k <= Len(q).
InsertAt(q, k, x) == SubSeq(q, 1, k) \o <<x>> \o SubSeq(q, k + 1, Len(q))

Range(q) == { q[i] : i \in 1..Len(q) }

-----------------------------------------------------------------------------
\* The engine.

\* BTreeMap::new().
EmptyMap == [j \in {} |-> Zero]

new ==
    [ cache |-> [contents |-> EmptyMap, occupied |-> 0],
      tiebreaker |-> [order |-> <<>>, occupied |-> 0] ]

Ok(e) == [ok |-> TRUE, e |-> e, msg |-> ""]

Panic(e, m) == [ok |-> FALSE, e |-> e, msg |-> m]

norm_credit_unscaled(item, cred) == cred

norm_credit(item, cred) == RDiv(cred, Rat(F32OfU32(get_size(item)), 1))

\* 1-based position of item in the order, 0 for None.
get_tiebreaker_index(e, item) ==
    IF item \in Range(e.tiebreaker.order)
    THEN CHOOSE i \in 1..Len(e.tiebreaker.order) :
            /\ e.tiebreaker.order[i] = item
            /\ \A j \in 1..(i - 1) : e.tiebreaker.order[j] # item
    ELSE 0

\* One `-=` on a u32 counter.  With overflow checks (oc, the debug profile) an
\* underflow panics; without them (the release profile) it wraps.
sub_u32(a, b, oc) ==
    IF ULt(a, b) /\ oc
    THEN [ok |-> FALSE, v |-> a]
    ELSE [ok |-> TRUE, v |-> a - b]

manage_tiebreak_noop(e, item, oc) == Ok(e)

manage_tiebreak(e, item, oc) ==
    LET index == get_tiebreaker_index(e, item)
        d == sub_u32(e.tiebreaker.occupied, get_size(item), oc)
    IN  IF index = 0 THEN Ok(e)
        ELSE IF ~d.ok THEN Panic(e, "attempt to subtract with overflow")
        ELSE Ok([e EXCEPT !.tiebreaker.order = RemoveAt(@, index),
                          !.tiebreaker.occupied = d.v])

\* The indices random_range(0..k - 1) can return; empty when the range is.
TieIndices == IF tie_policy = "Rand" THEN 0..(cap - 2) ELSE {}

\* What an action draws for update_tiebreak: an index of the range, or a
\* placeholder when nothing is drawn (no Rand policy, or the empty range).
TieDraws == IF TieIndices = {} THEN {0} ELSE TieIndices

\* Every policy inserts at the index handed in, or at the back past the end.
update_tiebreak_drawn(e, item, new_index) ==
    LET index == get_tiebreaker_index(e, item)
        order == IF index # 0 THEN RemoveAt(e.tiebreaker.order, index)
                 ELSE e.tiebreaker.order
    IN  IF new_index > Len(order)
        THEN Ok([e EXCEPT !.tiebreaker.order = Append(order, item)])
        ELSE Ok([e EXCEPT !.tiebreaker.order = InsertAt(order, new_index, item)])

\* Under FIFO an item found in the order is pushed to the back as well.
update_tiebreak_requeue(e, item, new_index) ==
    LET index == get_tiebreaker_index(e, item)
        order == IF index # 0 THEN RemoveAt(e.tiebreaker.order, index)
                 ELSE e.tiebreaker.order
    IN  IF tie_policy = "Rand"
        THEN IF TieIndices = {} THEN Panic(e, "cannot sample empty range")
             ELSE IF new_index > Len(order) THEN Panic(e, "index out of bounds")
             ELSE Ok([e EXCEPT !.tiebreaker.order = InsertAt(order, new_index, item)])
        ELSE Ok([e EXCEPT !.tiebreaker.order = Append(order, item)])

update_tiebreak(e, item, new_index) ==
    LET index == get_tiebreaker_index(e, item)
        order == IF index # 0 THEN RemoveAt(e.tiebreaker.order, index)
                 ELSE e.tiebreaker.order
    IN  CASE tie_policy = "Lru" ->
                Ok([e EXCEPT !.tiebreaker.order = Append(order, item)])
          [] tie_policy = "Fifo" ->
                IF index # 0
                THEN Ok([e EXCEPT !.tiebreaker.order = InsertAt(order, index - 1, item)])
                ELSE Ok([e EXCEPT !.tiebreaker.order = Append(order, item)])
          [] tie_policy = "Rand" ->
                IF TieIndices = {} THEN Panic(e, "cannot sample empty range")
                ELSE IF new_index > Len(order) THEN Panic(e, "index out of bounds")
                ELSE Ok([e EXCEPT !.tiebreaker.order = InsertAt(order, new_index, item)])

\* Sample points of the half-open range cred..cost of HitPolicy::Rand: its low
\* end and its midpoint; empty when the range is.
RandCredits(cred, cost) ==
    IF RLt(cred, cost) THEN {cred, RDiv(RAdd(cred, cost), Rat(2, 1))} ELSE {}

HitDraws(e, item) ==
    LET rc == RandCredits(e.cache.contents[item], get_cost(item))
    IN  IF hit_policy = "Rand" /\ rc # {} THEN rc ELSE {Zero}

half_credit_current(item, cred) == RDiv(cred, Rat(2, 1))

half_credit(item, cred) == RDiv(RSub(get_cost(item), cred), Rat(2, 1))

\* Refreshes the credit of every cached item to its cost.
hit_all(e, item, drawn) ==
    Ok([e EXCEPT !.cache.contents = [j \in DOMAIN @ |-> get_cost(j)]])

\* The NaN panic of hit is left out: no operation of the engine makes a NaN
\* out of finite credits and positive sizes.
hit(e, item, drawn) ==
    LET cred == e.cache.contents[item]
    IN  CASE hit_policy = "Lru" ->
                Ok([e EXCEPT !.cache.contents[item] = get_cost(item)])
          [] hit_policy = "Fifo" ->
                Ok([e EXCEPT !.cache.contents[item] = cred])
          [] hit_policy = "Rand" ->
                IF RandCredits(cred, get_cost(item)) = {}
                THEN Panic(e, "cannot sample empty range")
                ELSE Ok([e EXCEPT !.cache.contents[item] = drawn])
          [] hit_policy = "Half" ->
                Ok([e EXCEPT !.cache.contents[item] = half_credit(item, cred)])

\* Picks the member of zeros that is last in the order.
tiebreak_last(e, zeros) ==
    LET lasts == { i \in 1..Len(e.tiebreaker.order) :
                     /\ e.tiebreaker.order[i] \in zeros
                     /\ \A j \in (i + 1)..Len(e.tiebreaker.order) :
                            e.tiebreaker.order[j] \notin zeros }
    IN  IF lasts # {}
        THEN [ok |-> TRUE, item |-> e.tiebreaker.order[CHOOSE i \in lasts : TRUE],
              msg |-> ""]
        ELSE [ok |-> FALSE, item |-> CHOOSE it \in Items : TRUE,
              msg |-> "Tiebreaking order mismanagement"]

\* zeros is a set here: the source's Vec is only asked for its length, its
\* single element and membership.
tiebreak(e, zeros) ==
    LET firsts == { i \in 1..Len(e.tiebreaker.order) :
                      /\ e.tiebreaker.order[i] \in zeros
                      /\ \A j \in 1..(i - 1) : e.tiebreaker.order[j] \notin zeros }
    IN  IF Cardinality(zeros) = 1
        THEN [ok |-> TRUE, item |-> CHOOSE z \in zeros : TRUE, msg |-> ""]
        ELSE IF firsts # {}
        THEN [ok |-> TRUE, item |-> e.tiebreaker.order[CHOOSE i \in firsts : TRUE],
              msg |-> ""]
        ELSE [ok |-> FALSE, item |-> CHOOSE it \in Items : TRUE,
              msg |-> "Tiebreaking order mismanagement"]

\* The largest normalized credit in the contents.
max_norm_credit(contents) ==
    LET norms == { norm_credit(j, contents[j]) : j \in DOMAIN contents }
    IN  CHOOSE m \in norms : \A n \in norms : RLe(n, m)

\* The normalized credit of the minimum credit item (min_by_key, then norm_credit).
min_norm_credit(contents) ==
    LET norms == { norm_credit(j, contents[j]) : j \in DOMAIN contents }
    IN  CHOOSE m \in norms : \A n \in norms : RLe(m, n)

decay_flat(item, cred, min) == RSub(cred, min)

decay(item, cred, min) == RSub(cred, RMul(min, Rat(F32OfU32(get_size(item)), 1)))

\* The base case of evict: self.cache.size - self.cache.occupied >= size.
evict_base(e, size) == ~ULt(cap - e.cache.occupied, size)

\* One call of evict past its base case, up to the recursive call.
evict_step(e, size, oc) ==
    IF DOMAIN e.cache.contents = {}
    THEN [ok |-> FALSE, e |-> e, msg |-> "Could not find minimum credit element",
          min |-> Zero, victim |-> CHOOSE it \in Items : TRUE]
    ELSE
    LET min == min_norm_credit(e.cache.contents)
        decayed == [j \in DOMAIN e.cache.contents |-> decay(j, e.cache.contents[j], min)]
        zeros == { j \in DOMAIN decayed : decayed[j] = Zero }
        t == tiebreak(e, zeros)
        e1 == [e EXCEPT !.cache.contents = decayed]
        m == manage_tiebreak(e1, t.item, oc)
        d == sub_u32(e.cache.occupied, get_size(t.item), oc)
        kept == DOMAIN decayed \ {t.item}
    IN  IF ~t.ok THEN [ok |-> FALSE, e |-> e, msg |-> t.msg, min |-> min, victim |-> t.item]
        ELSE IF ~m.ok THEN [ok |-> FALSE, e |-> e, msg |-> m.msg, min |-> min, victim |-> t.item]
        ELSE IF ~d.ok THEN [ok |-> FALSE, e |-> e, msg |-> "attempt to subtract with overflow",
                            min |-> min, victim |-> t.item]
        ELSE [ok |-> TRUE,
              e |-> [m.e EXCEPT !.cache.contents = [j \in kept |-> decayed[j]],
                                !.cache.occupied = d.v],
              msg |-> "", min |-> min, victim |-> t.item]

add_pressure_last(pressure, min) == min

\* pressure += min, and pressure + self.evict(size) up the recursion.
add_pressure(pressure, min) == RAdd(pressure, min)

\* BTreeMap::insert.
insert(contents, item, cred) ==
    [j \in DOMAIN contents \cup {item} |-> IF j = item THEN cred ELSE contents[j]]

\* fault, first two branches; "Evict" when the third branch calls evict.
fault(e, item) ==
    IF ULt(cap, e.cache.occupied)
    THEN [ok |-> FALSE, e |-> e, msg |-> "Cache is overfull", kind |-> "Panic"]
    ELSE IF ~ULt(cap, e.cache.occupied + get_size(item))
    THEN [ok |-> TRUE, msg |-> "", kind |-> "Fault",
          e |-> [e EXCEPT !.cache.contents = insert(@, item, get_cost(item)),
                          !.cache.occupied = @ + get_size(item),
                          !.tiebreaker.occupied = @ + get_size(item)]]
    ELSE [ok |-> TRUE, e |-> e, msg |-> "", kind |-> "Evict"]

fault_after_evict_skip(e, item) == e

\* fault, after evict has returned: the insert of its third branch.
fault_after_evict(e, item) ==
    [e EXCEPT !.cache.contents = insert(@, item, get_cost(item))]

-----------------------------------------------------------------------------
\* The Tracker.

\* IndScr::new and Tracker::new.  The per-item maps are keyed by the labels
\* of the trace; a label the trace never requests keeps its empty sequence
\* here and is never read.
Tracker_new ==
    [ full_cost |-> <<>>, suff_cost |-> <<>>,
      full_pres |-> <<>>, suff_pres |-> <<>>,
      ind_scr |-> [ full_costs |-> [l \in Labels |-> <<>>],
                    suff_costs |-> [l \in Labels |-> <<>>] ] ]

\* RequestFullOrSuffix.
Full(is_hit) == [chan |-> "Full", is_hit |-> is_hit]

Suff(is_hit) == [chan |-> "Suff", is_hit |-> is_hit]

\* item.get_cost().0 as u32: the f32 cost is integral.
cost_u32(item) == get_cost(item)[1]

log_cost_swapped(t, item, request_type) ==
    LET c == IF request_type.is_hit THEN cost_u32(item) ELSE 0
    IN  IF request_type.chan = "Full"
        THEN [t EXCEPT !.full_cost = Append(@, c),
                       !.ind_scr.full_costs[item.label] = Append(@, c)]
        ELSE [t EXCEPT !.suff_cost = Append(@, c),
                       !.ind_scr.suff_costs[item.label] = Append(@, c)]

log_cost(t, item, request_type) ==
    LET c == IF request_type.is_hit THEN 0 ELSE cost_u32(item)
    IN  IF request_type.chan = "Full"
        THEN [t EXCEPT !.full_cost = Append(@, c),
                       !.ind_scr.full_costs[item.label] = Append(@, c)]
        ELSE [t EXCEPT !.suff_cost = Append(@, c),
                       !.ind_scr.suff_costs[item.label] = Append(@, c)]

log_pres_fault_only(t, pressure, request_type) ==
    IF request_type.is_hit THEN t
    ELSE IF request_type.chan = "Full"
    THEN [t EXCEPT !.full_pres = Append(@, pressure)]
    ELSE [t EXCEPT !.suff_pres = Append(@, pressure)]

log_pres(t, pressure, request_type) ==
    LET p == IF request_type.is_hit THEN Zero ELSE pressure
    IN  IF request_type.chan = "Full"
        THEN [t EXCEPT !.full_pres = Append(@, p)]
        ELSE [t EXCEPT !.suff_pres = Append(@, p)]

\* An f32 result: a finite value, held as an exact rational, or the NaN or
\* the infinity a division by 0.0 returns.
Finite(q) == [class |-> "finite", v |-> q]

NaN == [class |-> "NaN", v |-> Zero]

Infinity == [class |-> "inf", v |-> Zero]

\* a as f32 / b as f32 on two u32 sums.
f32_div(a, b) ==
    IF b # 0 THEN Finite(Rat(F32OfU32(a), F32OfU32(b)))
    ELSE IF a = 0 THEN NaN
    ELSE Infinity

RECURSIVE SumSeq(_)
SumSeq(q) == IF q = <<>> THEN 0 ELSE q[1] + SumSeq(Tail(q))

\* q.range(0..index).sum::<u32>(); range panics past the end of q.
range_sum(q, index) ==
    IF index > Len(q) THEN [ok |-> FALSE, v |-> 0]
    ELSE [ok |-> TRUE, v |-> SumSeq(SubSeq(q, 1, index))]

get_scr(t, index) ==
    LET suff_cost_sum == range_sum(t.suff_cost, index)
        full_cost_sum == range_sum(t.full_cost, index)
    IN  IF t.full_cost = <<>> THEN [ok |-> TRUE, v |-> Finite(Zero)]
        ELSE IF ~suff_cost_sum.ok \/ ~full_cost_sum.ok
        THEN [ok |-> FALSE, v |-> NaN]
        ELSE [ok |-> TRUE, v |-> f32_div(suff_cost_sum.v, full_cost_sum.v)]

get_ind_scr(t, index, item) ==
    LET item_suff_costs == range_sum(t.ind_scr.full_costs[item.label], index)
        item_full_costs == range_sum(t.ind_scr.full_costs[item.label], index)
    IN  IF ~item_suff_costs.ok \/ ~item_full_costs.ok
        THEN [ok |-> FALSE, v |-> NaN]
        ELSE IF item_full_costs.v = 0 THEN [ok |-> TRUE, v |-> Finite(Zero)]
        ELSE [ok |-> TRUE, v |-> f32_div(item_suff_costs.v, item_full_costs.v)]

-----------------------------------------------------------------------------
\* Landlord::run.

\* The items a trace may request: the loader admits sizes up to the capacity.
Requestable == { it \in Items : 1 <= get_size(it) /\ get_size(it) <= cap }

\* The request the loop is at, and its 0-based position i.
request == trace[Len(trace)]

position == Len(trace) - 1

in_prefix_early(i) == i + 1 < suffix_start

in_prefix_le(i) == i <= suffix_start

\* `if i < suffix_start as usize`.
in_prefix(i) == i < suffix_start

Init ==
    /\ cap \in 1..MaxCap
    /\ hit_policy \in HitPolicies
    /\ tie_policy \in TiebreakingPolicies
    /\ suffix_start \in 0..MaxStart
    /\ f = new
    /\ s = new
    /\ tracker = Tracker_new
    /\ trace = <<>>
    /\ pc = "full"
    /\ ev = [size |-> 0, pressure |-> Zero]
    /\ abort = ""
    /\ full_res = <<>>
    /\ suff_res = <<>>
    /\ s_seen = <<>>
    /\ cascade = <<>>
    /\ res = [who |-> "", kind |-> "", p |-> Zero]

\* Whether the build checks u32 arithmetic for overflow.  Either profile may
\* be running until a counter has wrapped; from then on it is one without
\* the checks (a wrapped cache.occupied never comes back below 2^31).
OverflowChecks ==
    IF \E e \in {f, s} : e.cache.occupied < 0 \/ e.tiebreaker.occupied < 0
    THEN {FALSE}
    ELSE BOOLEAN

\* A panic unwinds out of run: the process ends.
Abort(msg) ==
    /\ pc' = "panic"
    /\ abort' = msg
    /\ UNCHANGED <<cap, hit_policy, tie_policy, suffix_start, f, s, tracker, trace,
                   ev, full_res, suff_res, s_seen, cascade, res>>

\* The two log calls of one match arm of run.
log_both(t, item, pressure, request_type) ==
    log_pres(log_cost(t, item, request_type), pressure, request_type)

\* request, hit branch: hit, then update_tiebreak.
request_hit(e, item, drawn, new_index) ==
    LET h == hit(e, item, drawn)
    IN  IF h.ok THEN update_tiebreak(h.e, item, new_index) ELSE h

\* f.request(request) returns Hit; run logs it.
FullHit(item) ==
    /\ pc = "full"
    /\ Len(trace) < MaxTrace
    /\ item \in DOMAIN f.cache.contents
    /\ \E drawn \in HitDraws(f, item), new_index \in TieDraws :
         LET r == request_hit(f, item, drawn, new_index)
         IN  IF ~r.ok THEN Abort(r.msg)
             ELSE /\ f' = r.e
                  /\ trace' = Append(trace, item)
                  /\ tracker' = log_both(tracker, item, Zero, Full(TRUE))
                  /\ full_res' = Append(full_res, "Hit")
                  /\ cascade' = <<>>
                  /\ res' = [who |-> "f", kind |-> "Hit", p |-> Zero]
                  /\ pc' = "suff"
                  /\ UNCHANGED <<cap, hit_policy, tie_policy, suffix_start, s, ev,
                                 abort, suff_res, s_seen>>

\* f.request(request) faults: it returns Fault(0), or fault calls evict.
FullFault(item) ==
    /\ pc = "full"
    /\ Len(trace) < MaxTrace
    /\ item \notin DOMAIN f.cache.contents
    /\ \E new_index \in TieDraws :
         LET r == fault(f, item)
             u == update_tiebreak(r.e, item, new_index)
         IN  CASE ~r.ok -> Abort(r.msg)
               [] r.ok /\ r.kind = "Evict" ->
                    /\ trace' = Append(trace, item)
                    /\ ev' = [size |-> get_size(item), pressure |-> Zero]
                    /\ cascade' = <<>>
                    /\ pc' = "fevict"
                    /\ UNCHANGED <<cap, hit_policy, tie_policy, suffix_start, f, s,
                                   tracker, abort, full_res, suff_res, s_seen, res>>
               [] r.ok /\ r.kind = "Fault" /\ ~u.ok -> Abort(u.msg)
               [] r.ok /\ r.kind = "Fault" /\ u.ok ->
                    /\ f' = u.e
                    /\ trace' = Append(trace, item)
                    /\ tracker' = log_both(tracker, item, Zero, Full(FALSE))
                    /\ full_res' = Append(full_res, "Fault")
                    /\ cascade' = <<>>
                    /\ res' = [who |-> "f", kind |-> "Fault", p |-> Zero]
                    /\ pc' = "suff"
                    /\ UNCHANGED <<cap, hit_policy, tie_policy, suffix_start, s, ev,
                                   abort, suff_res, s_seen>>

\* What one evict step leaves in the history: the contents before the decay
\* pass and the item removed.
Evicted(e, r) == [before |-> e.cache.contents, victim |-> r.victim]

\* One call of f.evict past the base case.
FullEvict ==
    /\ pc = "fevict"
    /\ ~evict_base(f, ev.size)
    /\ \E oc \in OverflowChecks :
         LET r == evict_step(f, ev.size, oc)
         IN  IF ~r.ok THEN Abort(r.msg)
             ELSE /\ f' = r.e
                  /\ ev' = [ev EXCEPT !.pressure = add_pressure(@, r.min)]
                  /\ cascade' = Append(cascade, Evicted(f, r))
                  /\ UNCHANGED <<cap, hit_policy, tie_policy, suffix_start, s, tracker,
                                 trace, pc, abort, full_res, suff_res, s_seen, res>>

\* f.evict reaches its base case: fault inserts, request updates the order
\* and returns Fault(pressure); run logs it.
FullEvictReturn ==
    /\ pc = "fevict"
    /\ evict_base(f, ev.size)
    /\ \E new_index \in TieDraws :
         LET u == update_tiebreak(fault_after_evict(f, request), request, new_index)
         IN  IF ~u.ok THEN Abort(u.msg)
             ELSE /\ f' = u.e
                  /\ tracker' = log_both(tracker, request, ev.pressure, Full(FALSE))
                  /\ full_res' = Append(full_res, "Fault")
                  /\ res' = [who |-> "f", kind |-> "Fault", p |-> ev.pressure]
                  /\ pc' = "suff"
                  /\ UNCHANGED <<cap, hit_policy, tie_policy, suffix_start, s, trace, ev,
                                 abort, suff_res, s_seen, cascade>>

\* Before the suffix: S is logged as a hit and is not asked.
SuffSkip ==
    /\ pc = "suff"
    /\ in_prefix(position)
    /\ tracker' = log_both(tracker, request, Zero, Suff(TRUE))
    /\ suff_res' = Append(suff_res, "Skip")
    /\ pc' = "full"
    /\ UNCHANGED <<cap, hit_policy, tie_policy, suffix_start, f, s, trace, ev, abort,
                   full_res, s_seen, cascade, res>>

\* s.request(request) returns Hit; run logs it.
SuffHit ==
    /\ pc = "suff"
    /\ ~in_prefix(position)
    /\ request \in DOMAIN s.cache.contents
    /\ \E drawn \in HitDraws(s, request), new_index \in TieDraws :
         LET r == request_hit(s, request, drawn, new_index)
         IN  IF ~r.ok THEN Abort(r.msg)
             ELSE /\ s' = r.e
                  /\ tracker' = log_both(tracker, request, Zero, Suff(TRUE))
                  /\ suff_res' = Append(suff_res, "Hit")
                  /\ s_seen' = Append(s_seen, request)
                  /\ cascade' = <<>>
                  /\ res' = [who |-> "s", kind |-> "Hit", p |-> Zero]
                  /\ pc' = "full"
                  /\ UNCHANGED <<cap, hit_policy, tie_policy, suffix_start, f, trace, ev,
                                 abort, full_res>>

\* s.request(request) faults: it returns Fault(0), or fault calls evict.
SuffFault ==
    /\ pc = "suff"
    /\ ~in_prefix(position)
    /\ request \notin DOMAIN s.cache.contents
    /\ \E new_index \in TieDraws :
         LET r == fault(s, request)
             u == update_tiebreak(r.e, request, new_index)
         IN  CASE ~r.ok -> Abort(r.msg)
               [] r.ok /\ r.kind = "Evict" ->
                    /\ ev' = [size |-> get_size(request), pressure |-> Zero]
                    /\ s_seen' = Append(s_seen, request)
                    /\ cascade' = <<>>
                    /\ pc' = "sevict"
                    /\ UNCHANGED <<cap, hit_policy, tie_policy, suffix_start, f, s,
                                   tracker, trace, abort, full_res, suff_res, res>>
               [] r.ok /\ r.kind = "Fault" /\ ~u.ok -> Abort(u.msg)
               [] r.ok /\ r.kind = "Fault" /\ u.ok ->
                    /\ s' = u.e
                    /\ tracker' = log_both(tracker, request, Zero, Suff(FALSE))
                    /\ suff_res' = Append(suff_res, "Fault")
                    /\ s_seen' = Append(s_seen, request)
                    /\ cascade' = <<>>
                    /\ res' = [who |-> "s", kind |-> "Fault", p |-> Zero]
                    /\ pc' = "full"
                    /\ UNCHANGED <<cap, hit_policy, tie_policy, suffix_start, f, trace,
                                   ev, abort, full_res>>

\* One call of s.evict past the base case.
SuffEvict ==
    /\ pc = "sevict"
    /\ ~evict_base(s, ev.size)
    /\ \E oc \in OverflowChecks :
         LET r == evict_step(s, ev.size, oc)
         IN  IF ~r.ok THEN Abort(r.msg)
             ELSE /\ s' = r.e
                  /\ ev' = [ev EXCEPT !.pressure = add_pressure(@, r.min)]
                  /\ cascade' = Append(cascade, Evicted(s, r))
                  /\ UNCHANGED <<cap, hit_policy, tie_policy, suffix_start, f, tracker,
                                 trace, pc, abort, full_res, suff_res, s_seen, res>>

\* s.evict reaches its base case: the rest of fault and request; run logs it.
SuffEvictReturn ==
    /\ pc = "sevict"
    /\ evict_base(s, ev.size)
    /\ \E new_index \in TieDraws :
         LET u == update_tiebreak(fault_after_evict(s, request), request, new_index)
         IN  IF ~u.ok THEN Abort(u.msg)
             ELSE /\ s' = u.e
                  /\ tracker' = log_both(tracker, request, ev.pressure, Suff(FALSE))
                  /\ suff_res' = Append(suff_res, "Fault")
                  /\ res' = [who |-> "s", kind |-> "Fault", p |-> ev.pressure]
                  /\ pc' = "full"
                  /\ UNCHANGED <<cap, hit_policy, tie_policy, suffix_start, f, trace, ev,
                                 abort, full_res, s_seen, cascade>>

Next ==
    \/ \E item \in Requestable : FullHit(item)
    \/ \E item \in Requestable : FullFault(item)
    \/ FullEvict
    \/ FullEvictReturn
    \/ SuffSkip
    \/ SuffHit
    \/ SuffFault
    \/ SuffEvict
    \/ SuffEvictReturn

Spec == Init /\ [][Next]_vars

\* The same program on a cache of capacity WideCap, the suffix engine
\* starting at position WideStart.
InitWide ==
    /\ cap = WideCap
    /\ hit_policy \in HitPolicies
    /\ tie_policy \in TiebreakingPolicies
    /\ suffix_start = WideStart
    /\ f = new
    /\ s = new
    /\ tracker = Tracker_new
    /\ trace = <<>>
    /\ pc = "full"
    /\ ev = [size |-> 0, pressure |-> Zero]
    /\ abort = ""
    /\ full_res = <<>>
    /\ suff_res = <<>>
    /\ s_seen = <<>>
    /\ cascade = <<>>
    /\ res = [who |-> "", kind |-> "", p |-> Zero]

SpecWide == InitWide /\ [][Next]_vars

-----------------------------------------------------------------------------
\* Landlord::request and Landlord::run as functions of their arguments and of
\* the values the random number generator returns.  The actions above take
\* the same calls one evict step at a time.

\* Landlord::evict from pressure on: the steps up to the base case.
RECURSIVE evict(_, _, _, _)
evict(e, size, pressure, oc) ==
    IF evict_base(e, size) THEN [ok |-> TRUE, e |-> e, p |-> pressure]
    ELSE LET r == evict_step(e, size, oc)
         IN  IF ~r.ok THEN [ok |-> FALSE, e |-> e, p |-> pressure]
             ELSE evict(r.e, size, add_pressure(pressure, r.min), oc)

\* Landlord::request, given what random_range returns to hit (drawn) and to
\* update_tiebreak (new_index).
Landlord_request(e, item, drawn, new_index, oc) ==
    IF item \in DOMAIN e.cache.contents
    THEN LET r == request_hit(e, item, drawn, new_index)
         IN  [ok |-> r.ok, e |-> r.e, kind |-> "Hit", p |-> Zero]
    ELSE LET r == fault(e, item)
             u == update_tiebreak(r.e, item, new_index)
             v == evict(e, get_size(item), Zero, oc)
             w == update_tiebreak(fault_after_evict(v.e, item), item, new_index)
         IN  CASE ~r.ok -> [ok |-> FALSE, e |-> e, kind |-> "Fault", p |-> Zero]
               [] r.ok /\ r.kind = "Fault" ->
                    [ok |-> u.ok, e |-> u.e, kind |-> "Fault", p |-> Zero]
               [] r.ok /\ r.kind = "Evict" ->
                    [ok |-> v.ok /\ w.ok, e |-> w.e, kind |-> "Fault", p |-> v.p]

\* Two ways the generator may answer: with the low end of every range, or
\* with a higher value.  Where the policy draws nothing the value is unused.
Picks == {"low", "high"}

PickCredit(e, item, pick) ==
    IF item \notin DOMAIN e.cache.contents THEN Zero
    ELSE IF pick = "low" THEN e.cache.contents[item]
    ELSE RDiv(RAdd(e.cache.contents[item], get_cost(item)), Rat(2, 1))

PickIndex(e, item, pick) == IF pick = "low" THEN 0 ELSE 1

\* One iteration of the loop of run, at position i, from the engines and the
\* Tracker in st.
run_iteration(st, item, i, pick, oc) ==
    LET fr == Landlord_request(st.f, item, PickCredit(st.f, item, pick),
                               PickIndex(st.f, item, pick), oc)
        sr == Landlord_request(st.s, item, PickCredit(st.s, item, pick),
                               PickIndex(st.s, item, pick), oc)
        t1 == log_both(st.tracker, item, fr.p, Full(fr.kind = "Hit"))
    IN  IF ~st.ok THEN st
        ELSE IF ~fr.ok THEN [st EXCEPT !.ok = FALSE]
        ELSE IF in_prefix(i)
        THEN [ok |-> TRUE, f |-> fr.e, s |-> st.s,
              tracker |-> log_both(t1, item, Zero, Suff(TRUE))]
        ELSE IF ~sr.ok THEN [st EXCEPT !.ok = FALSE]
        ELSE [ok |-> TRUE, f |-> fr.e, s |-> sr.e,
              tracker |-> log_both(t1, item, sr.p, Suff(sr.kind = "Hit"))]

\* Landlord::run over the trace tr: the engines and the Tracker it ends with,
\* ok being FALSE if it panicked on the way.
RECURSIVE run(_, _, _)
run(tr, pick, oc) ==
    IF tr = <<>>
    THEN [ok |-> TRUE, f |-> new, s |-> new, tracker |-> Tracker_new]
    ELSE run_iteration(run(SubSeq(tr, 1, Len(tr) - 1), pick, oc),
                       tr[Len(tr)], Len(tr) - 1, pick, oc)

-----------------------------------------------------------------------------
\* Properties.

\* An engine is between two requests (no evict recursion of its own is open).
FIdle == pc \in {"full", "suff", "sevict"}

SIdle == pc \in {"full", "suff", "fevict"}

Engines == {f, s}

Cached(e) == DOMAIN e.cache.contents

RECURSIVE SumSizes(_)
SumSizes(S) ==
    IF S = {} THEN 0
    ELSE LET it == CHOOSE it \in S : TRUE IN it.size + SumSizes(S \ {it})

\* The sum of size(i) over the items in the cache contents.
SizeOfContents(e) == SumSizes(Cached(e))

\* C1 - Capacity: after any sequence of requests on items with
\* 1 <= size <= C, the sizes of the items in the cache contents sum to at
\* most C, in the full and in the suffix engine.
C1_Capacity ==
    /\ FIdle => SizeOfContents(f) <= cap
    /\ SIdle => SizeOfContents(s) <= cap

\* C2 - Occupancy accounting: after every request the cache's `occupied`
\* counter equals the sum of the sizes of the items in its contents.
C2_Occupancy ==
    /\ FIdle => f.cache.occupied = SizeOfContents(f)
    /\ SIdle => s.cache.occupied = SizeOfContents(s)

C4_SetConsistency ==
    /\ FIdle => Range(f.tiebreaker.order) = Cached(f)
    /\ SIdle => Range(s.tiebreaker.order) = Cached(s)

\* The full engine has completed a fault that evicted several items, after
\* an earlier hit.
C4_Witness ==
    /\ pc = "suff"
    /\ res = [who |-> "f", kind |-> "Fault", p |-> res.p]
    /\ Len(cascade) >= 2
    /\ "Hit" \in Range(full_res)

\* C5 as stated - Cost/hit coupling: full_cost[i] = 0 exactly when the full
\* engine hit at i, and suff_cost[i] = 0 exactly when the suffix engine hit
\* at i, for i >= suffix_start, whatever the cost of the item (0 included).
C5_CostIffHit ==
    /\ \A i \in 1..Len(tracker.full_cost) :
         tracker.full_cost[i] = 0 <=> full_res[i] = "Hit"
    /\ \A i \in 1..Len(tracker.suff_cost) :
         i - 1 >= suffix_start =>
            (tracker.suff_cost[i] = 0 <=> suff_res[i] = "Hit")

\* C5 as amended - full_cost[i] = 0 exactly when the full engine hit at i or
\* the item requested at i has cost 0; likewise suff_cost[i] and the suffix
\* engine, for i >= suffix_start.
C5_CostIffHitOrFree ==
    /\ \A i \in 1..Len(tracker.full_cost) :
         tracker.full_cost[i] = 0 <=> (full_res[i] = "Hit" \/ trace[i].cost = 0)
    /\ \A i \in 1..Len(tracker.suff_cost) :
         i - 1 >= suffix_start =>
            (tracker.suff_cost[i] = 0 <=> (suff_res[i] = "Hit" \/ trace[i].cost = 0))

\* Both engines have logged a fault on a zero-cost item, a fault on a
\* costly item and a hit.
C5_Witness ==
    /\ \E i \in 1..Len(full_res) : full_res[i] = "Fault" /\ trace[i].cost = 0
    /\ \E i \in 1..Len(full_res) : full_res[i] = "Fault" /\ trace[i].cost > 0
    /\ \E i \in 1..Len(full_res) : full_res[i] = "Hit"
    /\ \E i \in 1..Len(suff_res) : suff_res[i] = "Fault" /\ trace[i].cost = 0
    /\ \E i \in 1..Len(suff_res) : suff_res[i] = "Hit"

\* C6 - Tracker length: once run has processed request k (it is back at the
\* top of its loop with k + 1 requests taken), full_cost, suff_cost,
\* full_pres and suff_pres all have length k + 1.
C6_TrackerLength ==
    pc = "full" =>
        /\ Len(tracker.full_cost) = Len(trace)
        /\ Len(tracker.suff_cost) = Len(trace)
        /\ Len(tracker.full_pres) = Len(trace)
        /\ Len(tracker.suff_pres) = Len(trace)

\* Three requests are processed, some before the suffix and some in it, with
\* hits and faults on both channels.
C6_Witness ==
    /\ pc = "full"
    /\ Len(trace) >= 3
    /\ {"Skip", "Hit", "Fault"} \subseteq Range(suff_res)
    /\ {"Hit", "Fault"} \subseteq Range(full_res)

\* The labels the Tracker was created with, as far as the loop has come.
Requested == { trace[i].label : i \in 1..Len(trace) }

\* C7 - Per-item ledger alignment: once run has processed request r, every
\* per-item sequence of ind_full_cost and ind_suff_cost has length r + 1,
\* with entry 0 wherever the channel did not charge that item.
C7_LedgerAligned ==
    pc = "full" =>
        \A l \in Requested :
            /\ Len(tracker.ind_scr.full_costs[l]) = Len(trace)
            /\ Len(tracker.ind_scr.suff_costs[l]) = Len(trace)
            /\ \A i \in 1..Len(trace) :
                 trace[i].label # l =>
                    /\ tracker.ind_scr.full_costs[l][i] = 0
                    /\ tracker.ind_scr.suff_costs[l][i] = 0

\* C8 - Suffix gating: at every position i < suffix_start, suff_cost[i] = 0
\* and suff_pres[i] = 0, whatever the full engine did at i.
C8_SuffixGating ==
    /\ \A i \in 1..Len(tracker.suff_cost) :
         i - 1 < suffix_start => tracker.suff_cost[i] = 0
    /\ \A i \in 1..Len(tracker.suff_pres) :
         i - 1 < suffix_start => tracker.suff_pres[i] = Zero

\* Before the suffix the full engine has faulted with a cost and a pressure
\* above 0, and the suffix channel has logged that position.
C8_Witness ==
    \E i \in 1..Len(tracker.suff_pres) :
        /\ i - 1 < suffix_start
        /\ full_res[i] = "Fault"
        /\ tracker.full_cost[i] > 0
        /\ RLt(Zero, tracker.full_pres[i])

\* The positions from suffix_start on that the loop has reached.
InSuffix == IF Len(trace) > suffix_start THEN Len(trace) - suffix_start ELSE 0

\* C9 - Suffix isolation and ordering: the suffix engine is untouched while
\* the loop is at positions below suffix_start; it is passed exactly the
\* requests at positions suffix_start, suffix_start + 1, ... in trace order,
\* all of them once the loop is past a position, and each only after the
\* full engine has returned its result for that position.
C9_SuffixIsolation ==
    /\ Len(trace) <= suffix_start => s = new /\ s_seen = <<>>
    /\ Len(s_seen) <= InSuffix
    /\ s_seen = SubSeq(trace, suffix_start + 1, suffix_start + Len(s_seen))
    /\ pc = "full" => Len(s_seen) = InSuffix
    /\ Len(s_seen) > 0 => Len(full_res) >= suffix_start + Len(s_seen)

\* The loop has skipped a position and then passed two to the suffix engine.
C9_Witness ==
    /\ pc = "full"
    /\ suffix_start >= 1
    /\ Len(s_seen) >= 2
    /\ s # new

\* min over cached j of credit(j) / size(j).
Mu(contents) ==
    LET q == { RDiv(contents[j], <<j.size, 1>>) : j \in DOMAIN contents }
    IN  CHOOSE m \in q : \A n \in q : RLe(m, n)

RECURSIVE SumOfMinima(_)
SumOfMinima(steps) ==
    IF steps = <<>> THEN Zero
    ELSE RAdd(Mu(steps[1].before), SumOfMinima(Tail(steps)))

\* C10 - Fault pressure: the pressure p of a returned Fault(p) is the sum,
\* over the evict steps of that fault, of the minimum of credit(j)/size(j)
\* taken just before the step's decay pass; it is 0 when nothing was evicted
\* and never negative.
C10_FaultPressure ==
    (pc \in {"full", "suff"} /\ res.kind = "Fault") =>
        /\ res.p = SumOfMinima(cascade)
        /\ cascade = <<>> => res.p = Zero
        /\ RLe(Zero, res.p)

\* A fault of the suffix engine has returned after two evict steps, each
\* with a minimum above 0.
C10_Witness ==
    /\ pc = "full"
    /\ res.who = "s"
    /\ res.kind = "Fault"
    /\ Len(cascade) = 2
    /\ \A k \in 1..2 : RLt(Zero, Mu(cascade[k].before))

\* What a returned fault on item leaves in the engine: the item cached with
\* credit cost(item) and present in the order, last under LRU and FIFO.
FaultPost(e, item) ==
    /\ item \in Cached(e)
    /\ e.cache.contents[item] = <<item.cost, 1>>
    /\ item \in Range(e.tiebreaker.order)
    /\ tie_policy \in {"Lru", "Fifo"} =>
           e.tiebreaker.order[Len(e.tiebreaker.order)] = item

\* occupied + size(item) <= C on the u32 counter.
Fits(e, item) ==
    /\ e.cache.occupied >= 0
    /\ e.cache.occupied + item.size <= cap

\* C11 - Fault postcondition: after request(i) on an item that is not in the
\* cache, i is in the cache with credit exactly cost(i) and in the tiebreak
\* order (at the back under LRU and FIFO tiebreak); if occupied + size(i) <= C
\* held before the request, nothing is evicted and the result is Fault(0).
C11_FaultPostcondition ==
    [][ /\ full_res' = Append(full_res, "Fault") =>
            FaultPost(f', trace'[Len(trace')])
        /\ suff_res' = Append(suff_res, "Fault") =>
            FaultPost(s', trace'[Len(trace')])
        /\ ( /\ pc = "full"
             /\ trace' # trace
             /\ trace'[Len(trace')] \notin Cached(f)
             /\ Fits(f, trace'[Len(trace')]) ) =>
                /\ Cached(f') = Cached(f) \cup {trace'[Len(trace')]}
                /\ full_res' = Append(full_res, "Fault")
                /\ res' = [who |-> "f", kind |-> "Fault", p |-> Zero]
        /\ ( /\ pc = "suff"
             /\ s_seen' # s_seen
             /\ request \notin Cached(s)
             /\ Fits(s, request) ) =>
                /\ Cached(s') = Cached(s) \cup {request}
                /\ suff_res' = Append(suff_res, "Fault")
                /\ res' = [who |-> "s", kind |-> "Fault", p |-> Zero]
      ]_vars

\* Under FIFO tiebreak a fault of the full engine that fitted has returned
\* Fault(0) and left its item behind another one in the order.
C11_Witness ==
    /\ pc = "suff"
    /\ tie_policy = "Fifo"
    /\ res = [who |-> "f", kind |-> "Fault", p |-> Zero]
    /\ Len(f.tiebreaker.order) >= 2
    /\ FaultPost(f, request)

\* The credit a hit leaves on item, from the credit c it had: cost(i) under
\* LRU, c under FIFO, (cost(i) - c) / 2 under HALF.
HitPost(e, e2, item) ==
    LET c == e.cache.contents[item]
        n == e2.cache.contents[item]
    IN  /\ item \in Cached(e) /\ item \in Cached(e2)
        /\ hit_policy = "Lru" => n = <<item.cost, 1>>
        /\ hit_policy = "Fifo" => n = c
        /\ hit_policy = "Half" => n = Rat(item.cost * c[2] - c[1], 2 * c[2])

IdleEngines == (IF FIdle THEN {f} ELSE {}) \cup (IF SIdle THEN {s} ELSE {})

\* C13 - RAND hit, degenerate range: under RAND a hit on an item whose
\* credit equals its cost completes normally and leaves the credit at
\* cost(i); on any other item the new credit lies in [old credit, cost(i)).
C13_RandHit ==
    hit_policy = "Rand" =>
        \A e \in IdleEngines : \A item \in Cached(e) :
            \A drawn \in HitDraws(e, item) :
                LET c == e.cache.contents[item]
                    h == hit(e, item, drawn)
                    n == h.e.cache.contents[item]
                IN  /\ h.ok
                    /\ c = get_cost(item) => n = get_cost(item)
                    /\ c # get_cost(item) => RLe(c, n) /\ RLt(n, get_cost(item))

\* The order update_tiebreak inserts item into: the order without item.
OrderWithout(e, item) ==
    IF get_tiebreaker_index(e, item) = 0 THEN e.tiebreaker.order
    ELSE RemoveAt(e.tiebreaker.order, get_tiebreaker_index(e, item))

\* C14 - RAND tiebreak insertion: under RAND tiebreak every insertion into
\* the order draws its index from [0, |order|] for the order's current
\* length, so it succeeds for every capacity >= 1 and every order length,
\* the empty and the length-one order included.
C14_RandInsertion ==
    tie_policy = "Rand" =>
        \A e \in IdleEngines : \A item \in Requestable :
            /\ TieIndices = 0..Len(OrderWithout(e, item))
            /\ \A new_index \in TieDraws : update_tiebreak(e, item, new_index).ok

\* C15 - Determinism without RAND: for a fixed trace, capacity, suffix_start
\* and policies drawn from {LRU, FIFO}, two runs step through identical
\* engine states and produce identical Tracker sequences: the engines and
\* the Tracker the loop holds after a position are those of run on the trace
\* so far, whatever the random number generator would answer.
C15_Deterministic ==
    ( /\ pc = "full"
      /\ hit_policy \in {"Lru", "Fifo"}
      /\ tie_policy \in {"Lru", "Fifo"} ) =>
        \A pick \in Picks :
            LET r == run(trace, pick, FALSE)
            IN  /\ r.ok
                /\ f = r.f
                /\ s = r.s
                /\ tracker = r.tracker

\* Under FIFO hits and LRU tiebreak the loop is past three positions, the
\* last one a fault that evicted, and the two engines differ.
C15_Witness ==
    /\ pc = "full"
    /\ hit_policy = "Fifo"
    /\ tie_policy = "Lru"
    /\ Len(trace) >= 3
    /\ res.kind = "Fault"
    /\ cascade # <<>>
    /\ s # f

\* C16 - Seeded reproducibility: with RAND among the policies, running the
\* same trace twice with the same seed produces identical Tracker
\* sequences, the draws coming from a generator whose seed the caller
\* controls.  run takes no seed, so the inputs of a run are the trace, the
\* capacity, suffix_start and the policies: the Tracker after a position is
\* the one of the run in which every draw returns the low end of its range.
C16_SeededReproducible ==
    ( /\ pc = "full"
      /\ hit_policy = "Rand" \/ tie_policy = "Rand" ) =>
        LET r == run(trace, "low", FALSE)
        IN  r.ok /\ tracker = r.tracker

\* The sum of the first k entries of a cost sequence.
PrefixSum(q, k) == SumSeq(SubSeq(q, 1, k))

\* C17 - scr(k): for 0 <= k <= N, get_scr(k) is the sum of suff_cost over
\* [0, k) divided by the sum of full_cost over [0, k), and it is 0 when no
\* costs have been logged or when the full-cost sum is 0 (k = 0 on a
\* non-empty Tracker, or a prefix of hits and zero-cost faults only).
C17_Scr ==
    pc = "full" =>
        \A k \in 0..Len(tracker.full_cost) :
            LET r == get_scr(tracker, k)
                full_sum == PrefixSum(tracker.full_cost, k)
                suff_sum == PrefixSum(tracker.suff_cost, k)
            IN  /\ r.ok
                /\ r.v = IF tracker.full_cost = <<>> \/ full_sum = 0
                         THEN Finite(Zero)
                         ELSE Finite(Rat(suff_sum, full_sum))

\* C18 - ind_scr(k, item): get_ind_scr(k, item) is the sum of the item's
\* suffix-cost sequence over [0, k) divided by the sum of its full-cost
\* sequence over [0, k), or 0 if that full-cost sum is 0; it is not
\* constantly 1 when the item's suffix cost differs from its full cost.
C18_IndScr ==
    pc = "full" =>
        \A item \in Items :
            \A k \in 0..Len(tracker.ind_scr.full_costs[item.label]) :
                LET r == get_ind_scr(tracker, k, item)
                    full_sum == PrefixSum(tracker.ind_scr.full_costs[item.label], k)
                    suff_sum == PrefixSum(tracker.ind_scr.suff_costs[item.label], k)
                IN  /\ r.ok
                    /\ r.v = IF full_sum = 0 THEN Finite(Zero)
                             ELSE Finite(Rat(suff_sum, full_sum))

\* C19 - Evict progress and termination: from any reachable engine state and
\* any needed size <= C, every recursive evict step either returns at the
\* base case (C - occupied >= needed size) or strictly decreases `occupied`,
\* so that evict returns after finitely many steps.
C19_EvictProgress ==
    [][ /\ (pc = "fevict" /\ ~evict_base(f, ev.size)) =>
            /\ pc' # "panic"
            /\ ULt(f'.cache.occupied, f.cache.occupied)
        /\ (pc = "sevict" /\ ~evict_base(s, ev.size)) =>
            /\ pc' # "panic"
            /\ ULt(s'.cache.occupied, s.cache.occupied)
      ]_vars

\* The cached items whose credit is exactly 0 after the decay pass of an
\* evict step taken from e.
ZerosAfterDecay(e) ==
    { j \in Cached(e) :
        decay(j, e.cache.contents[j], min_norm_credit(e.cache.contents)) = Zero }

\* C20 - Zero-credit victim exists: in every evict step that passes the base
\* case, after the decay pass at least one cached item has credit exactly
\* 0, so the zeros are not empty, tiebreak finds its victim and the
\* "Tiebreaking order mismanagement" abort is unreachable (credits being
\* exact rationals).
C20_ZeroVictim ==
    /\ (pc = "fevict" /\ ~evict_base(f, ev.size)) =>
            /\ Cached(f) # {}
            /\ ZerosAfterDecay(f) # {}
            /\ tiebreak(f, ZerosAfterDecay(f)).ok
    /\ (pc = "sevict" /\ ~evict_base(s, ev.size)) =>
            /\ Cached(s) # {}
            /\ ZerosAfterDecay(s) # {}
            /\ tiebreak(s, ZerosAfterDecay(s)).ok
    /\ abort # "Tiebreaking order mismanagement"

\* An evict step of the full engine is past the base case and its decay
\* pass takes two items to credit 0 at once.
C20_Witness ==
    /\ pc = "fevict"
    /\ ~evict_base(f, ev.size)
    /\ Cardinality(ZerosAfterDecay(f)) >= 2

\* An evict step from e to e2 removed item v: v was among the zeros of the
\* step and stood in the order before every other one of them.
PickedEarliest(e, e2, v) ==
    /\ v \in ZerosAfterDecay(e)
    /\ v \notin Cached(e2)
    /\ \A j \in ZerosAfterDecay(e) \ {v} :
           /\ 1 <= get_tiebreaker_index(e, v)
           /\ get_tiebreaker_index(e, v) < get_tiebreaker_index(e, j)

\* C21 - Tiebreak pick: given the non-empty set zeros of the cached items
\* with credit 0, tiebreak returns the member of zeros that is earliest in
\* the tiebreak order, and the only member when zeros is a singleton: the
\* item an evict step removes is that one.
C21_TiebreakPick ==
    [][ /\ (pc = "fevict" /\ ~evict_base(f, ev.size) /\ f' # f) =>
            \E v \in Cached(f) :
                /\ Cached(f') = Cached(f) \ {v}
                /\ PickedEarliest(f, f', v)
        /\ (pc = "sevict" /\ ~evict_base(s, ev.size) /\ s' # s) =>
            \E v \in Cached(s) :
                /\ Cached(s') = Cached(s) \ {v}
                /\ PickedEarliest(s, s', v)
      ]_vars

\* The zeros of a step: the items of contents c that its decay pass takes
\* to credit 0.
ZerosOf(c) == { j \in DOMAIN c : decay(j, c[j], min_norm_credit(c)) = Zero }

\* The latest evict step of the full engine had two items at credit 0; it
\* removed one and the other is still cached.
C21_Witness ==
    /\ pc = "fevict"
    /\ cascade # <<>>
    /\ Cardinality(ZerosOf(cascade[Len(cascade)].before)) >= 2
    /\ cascade[Len(cascade)].victim \in ZerosOf(cascade[Len(cascade)].before)
    /\ \E j \in ZerosOf(cascade[Len(cascade)].before) : j \in Cached(f)

\* The order q with every occurrence of item taken out.
Others(q, item) == SelectSeq(q, LAMBDA x : x # item)

\* What a hit on item does to the order: under LRU the item goes to the
\* back and the others keep their relative order; under FIFO nothing moves.
TouchPost(e, e2, item) ==
    /\ tie_policy = "Lru" =>
           e2.tiebreaker.order = Append(Others(e.tiebreaker.order, item), item)
    /\ tie_policy = "Fifo" => e2.tiebreaker.order = e.tiebreaker.order

\* C22 - Touch on hit: on a hit on item i, under tiebreak policy LRU i is
\* moved to the back of the tiebreak order with the relative order of all
\* other items preserved; under FIFO the whole order is left as it was.
C22_TouchOnHit ==
    [][ /\ full_res' = Append(full_res, "Hit") =>
            TouchPost(f, f', trace'[Len(trace')])
        /\ suff_res' = Append(suff_res, "Hit") =>
            TouchPost(s, s', request)
      ]_vars

\* Under LRU tiebreak a hit of the full engine has moved its item behind
\* the item requested just before it, which is still cached.
C22_Witness ==
    /\ pc = "suff"
    /\ tie_policy = "Lru"
    /\ res.who = "f" /\ res.kind = "Hit"
    /\ Len(trace) >= 3
    /\ trace[Len(trace) - 1] # request
    /\ Len(f.tiebreaker.order) >= 2
    /\ f.tiebreaker.order[Len(f.tiebreaker.order)] = request
    /\ f.tiebreaker.order[Len(f.tiebreaker.order) - 1] = trace[Len(trace) - 1]

\* C23 - No abort on valid input: for every trace of items with
\* 1 <= size <= C, hit policy in {LRU, FIFO, HALF} and tiebreak policy in
\* {LRU, FIFO}, every request completes without reaching a fatal state: no
\* "Cache is overfull", no missing minimum, no unsigned underflow of
\* cache.occupied or tiebreaker.occupied, no underflow of size - occupied.
C23_NoAbort ==
    ( /\ hit_policy \in {"Lru", "Fifo", "Half"}
      /\ tie_policy \in {"Lru", "Fifo"} ) =>
        /\ pc # "panic"
        /\ \A e \in Engines :
               /\ e.cache.occupied >= 0
               /\ e.tiebreaker.occupied >= 0
               /\ e.cache.occupied <= cap

\* What a hit on item leaves alone in its engine: the set of cached items,
\* both occupied counters, the credit of every other item, and the order
\* but for the place of item in it.
HitFrame(e, e2, item) ==
    /\ Cached(e2) = Cached(e)
    /\ e2.cache.occupied = e.cache.occupied
    /\ e2.tiebreaker.occupied = e.tiebreaker.occupied
    /\ \A j \in Cached(e) \ {item} : e2.cache.contents[j] = e.cache.contents[j]
    /\ Others(e2.tiebreaker.order, item) = Others(e.tiebreaker.order, item)
    /\ Len(e2.tiebreaker.order) = Len(e.tiebreaker.order)

\* C24 - Hit frame: a request that hits on item i leaves the set of cached
\* items, the `occupied` counters and the credit of every cached item other
\* than i unchanged; only credit(i) and the position of i in the tiebreak
\* order may change.
C24_HitFrame ==
    [][ /\ full_res' = Append(full_res, "Hit") =>
            HitFrame(f, f', trace'[Len(trace')]) /\ s' = s
        /\ suff_res' = Append(suff_res, "Hit") =>
            HitFrame(s, s', request) /\ f' = f
      ]_vars

\* A hit of the full engine has returned while another cached item sits on
\* a decayed credit.
C24_Witness ==
    /\ pc = "suff"
    /\ res.who = "f" /\ res.kind = "Hit"
    /\ \E j \in Cached(f) \ {request} :
           /\ RLt(Zero, f.cache.contents[j])
           /\ RLt(f.cache.contents[j], get_cost(j))

\* credit(j) / size(j) in contents c.
NormIn(c, j) == RDiv(c[j], <<j.size, 1>>)

\* C25 - Victim minimality: in every evict step the item removed from the
\* cache is one whose credit/size, measured just before that step's decay
\* pass, is minimal among all cached items (no item with a strictly larger
\* normalized credit is evicted while a smaller one stays), and the item
\* being faulted in is never the victim.
C25_VictimMinimal ==
    \A k \in 1..Len(cascade) :
        /\ cascade[k].victim \in DOMAIN cascade[k].before
        /\ \A j \in DOMAIN cascade[k].before :
               RLe(NormIn(cascade[k].before, cascade[k].victim),
                   NormIn(cascade[k].before, j))
        /\ cascade[k].victim # request

\* An evict step has removed an item while another cached item had a
\* strictly larger credit/size.
C25_Witness ==
    \E k \in 1..Len(cascade) : \E j \in DOMAIN cascade[k].before :
        RLt(NormIn(cascade[k].before, cascade[k].victim),
            NormIn(cascade[k].before, j))

====
